---- MODULE Spec2Model ----
(***************************************************************************)
(* Model of lib/sqlalchemy/dialects/postgresql/json.py: the custom         *)
(* operator descriptors, JSONPathType.bind_processor, the JSON value codec *)
(* (bind_processor / result_processor) and the JSON / JSONB comparators.   *)
(*                                                                         *)
(* Python values are tagged records; a Python text string is a sequence of *)
(* one-character strings, so that joining, serialising and parsing work on *)
(* characters.  The wire form of a JSON document is such a character       *)
(* sequence together with a flag telling text from bytes.                  *)
(***************************************************************************)
EXTENDS Integers, Sequences, FiniteSets, TLC

VARIABLES
    none_as_null,   \* JSON.none_as_null of the column type used by the codec
    py2k,           \* util.py2k
    serializer,     \* dialect._json_serializer ("" = None)
    bindIn,         \* argument of the last bind process(value)
    bindOut,        \* what that call returned
    resIn,          \* argument of the last result process(value)
    resOut,         \* what that call returned or raised
    calls,          \* the calls the last result process(value) made, in order
    debug,          \* __debug__: assert statements are compiled in
    pathIn,         \* argument of the last JSONPathType process(value)
    pathOut,        \* what that call returned or raised
    descriptors,    \* the module-level operator objects, by name
    nodes,          \* the expression objects built so far
    call            \* the last comparator call: method, receiver, argument
                    \* and the exception it raised ("" = none)

vars == <<none_as_null, py2k, serializer, bindIn, bindOut, resIn, resOut,
          calls, debug, pathIn, pathOut, descriptors, nodes, call>>

codecVars == <<none_as_null, py2k, serializer, bindIn, bindOut, resIn,
               resOut, calls>>
pathVars == <<debug, pathIn, pathOut>>
exprVars == <<descriptors, nodes, call>>

(***************************************************************************)
(* Bounds                                                                  *)
(***************************************************************************)
MaxLen == 2        \* longest list, tuple or dict offered to the codec
MaxPath == 3       \* longest path offered to JSONPathType
MaxNodes == 4      \* most expression objects built in one behaviour
MaxJunk == 2       \* longest arbitrary character string fed to the decoder

(***************************************************************************)
(* Python values                                                           *)
(***************************************************************************)
PyNone == [t |-> "None"]
PyBool(b) == [t |-> "bool", b |-> b]
PyInt(n) == [t |-> "int", n |-> n]
PyStr(s) == [t |-> "str", s |-> s]
PyBytes(s) == [t |-> "bytes", s |-> s]
PyList(v) == [t |-> "list", v |-> v]
PyTuple(v) == [t |-> "tuple", v |-> v]
\* a dict is its items in insertion order, keys pairwise different
PyDict(items) == [t |-> "dict", v |-> items]
\* the two markers: JSON.NULL and an elements.Null instance (sql null())
JSON_NULL == [t |-> "JSON.NULL"]
SqlNull == [t |-> "elements.Null"]
\* no call made yet
Unset == [t |-> "unset"]

RECURSIVE Join(_, _)
\* sep.join(parts)
Join(sep, parts) ==
    IF parts = <<>> THEN <<>>
    ELSE IF Len(parts) = 1 THEN parts[1]
    ELSE parts[1] \o sep \o Join(sep, Tail(parts))

DigitChar == <<"0", "1", "2", "3", "4", "5", "6", "7", "8", "9">>
Digits == {DigitChar[i] : i \in 1..10}
DigitVal(c) == CHOOSE d \in 0..9 : DigitChar[d + 1] = c

RECURSIVE IntText(_)
\* str(n) for a non-negative int
IntText(n) ==
    IF n < 10 THEN <<DigitChar[n + 1]>>
    ELSE IntText(n \div 10) \o <<DigitChar[(n % 10) + 1]>>

Chars(str) == CASE str = "null" -> <<"n", "u", "l", "l">>
                [] str = "true" -> <<"t", "r", "u", "e">>
                [] str = "false" -> <<"f", "a", "l", "s", "e">>

(***************************************************************************)
(* json.dumps with its default arguments, and with other separators.      *)
(* Strings are over letters and digits, which the encoder does not escape. *)
(***************************************************************************)
\* the key coercion of the encoder: str kept, int, bool and None spelled out
KeyText(k) ==
    CASE k.t = "str" -> k.s
      [] k.t = "int" -> IntText(k.n)
      [] k.t = "bool" -> IF k.b THEN Chars("true") ELSE Chars("false")
      [] k.t = "None" -> Chars("null")

Quoted(s) == <<"\"">> \o s \o <<"\"">>

RECURSIVE DumpsSep(_, _, _)
DumpsSep(v, itemSep, keySep) ==
    CASE v.t = "None" -> Chars("null")
      [] v.t = "bool" -> IF v.b THEN Chars("true") ELSE Chars("false")
      [] v.t = "int" -> IntText(v.n)
      [] v.t = "str" -> Quoted(v.s)
      [] v.t \in {"list", "tuple"} ->
            <<"[">> \o
            Join(itemSep, [i \in 1..Len(v.v) |->
                              DumpsSep(v.v[i], itemSep, keySep)]) \o
            <<"]">>
      [] v.t = "dict" ->
            <<"{">> \o
            Join(itemSep, [i \in 1..Len(v.v) |->
                              Quoted(KeyText(v.v[i][1])) \o keySep \o
                              DumpsSep(v.v[i][2], itemSep, keySep)]) \o
            <<"}">>

dumps(v) == DumpsSep(v, <<",", " ">>, <<":", " ">>)

(***************************************************************************)
(* json.loads: the scanner of the standard decoder, on characters.         *)
(* A parse step yields [ok, v, i]: whether it matched, the value, and the  *)
(* position after it.                                                      *)
(***************************************************************************)
Fail == [ok |-> FALSE, v |-> PyNone, i |-> 0]
Ok(v, i) == [ok |-> TRUE, v |-> v, i |-> i]

At(s, i) == IF i >= 1 /\ i <= Len(s) THEN s[i] ELSE ""

RECURSIVE SkipWs(_, _)
SkipWs(s, i) == IF At(s, i) = " " THEN SkipWs(s, i + 1) ELSE i

Matches(s, i, word) ==
    /\ i + Len(word) - 1 <= Len(s)
    /\ SubSeq(s, i, i + Len(word) - 1) = word

RECURSIVE ScanDigits(_, _, _)
ScanDigits(s, i, acc) ==
    IF At(s, i) \in Digits
    THEN ScanDigits(s, i + 1, 10 * acc + DigitVal(s[i]))
    ELSE Ok(PyInt(acc), i)

\* the closing quote of a string whose opening quote is before position i
RECURSIVE ScanString(_, _, _)
ScanString(s, i, acc) ==
    IF i > Len(s) THEN Fail
    ELSE IF s[i] = "\"" THEN Ok(PyStr(acc), i + 1)
    ELSE ScanString(s, i + 1, Append(acc, s[i]))

\* d[key] = value on the items of a dict
SetItem(items, k, v) ==
    IF \E j \in 1..Len(items) : items[j][1] = k
    THEN [j \in 1..Len(items) |->
             IF items[j][1] = k THEN <<k, v>> ELSE items[j]]
    ELSE Append(items, <<k, v>>)

RECURSIVE ScanOnce(_, _)
RECURSIVE ScanArray(_, _, _)
RECURSIVE ScanObject(_, _, _)

ScanOnce(s, i) ==
    LET c == At(s, i) IN
    CASE c = "\"" -> ScanString(s, i + 1, <<>>)
      [] c = "{" ->
            LET j == SkipWs(s, i + 1) IN
            IF At(s, j) = "}" THEN Ok(PyDict(<<>>), j + 1)
            ELSE ScanObject(s, j, <<>>)
      [] c = "[" ->
            LET j == SkipWs(s, i + 1) IN
            IF At(s, j) = "]" THEN Ok(PyList(<<>>), j + 1)
            ELSE ScanArray(s, j, <<>>)
      [] c = "n" /\ Matches(s, i, Chars("null")) -> Ok(PyNone, i + 4)
      [] c = "t" /\ Matches(s, i, Chars("true")) -> Ok(PyBool(TRUE), i + 4)
      [] c = "f" /\ Matches(s, i, Chars("false")) -> Ok(PyBool(FALSE), i + 5)
      [] c = "0" -> Ok(PyInt(0), i + 1)
      [] c \in Digits \ {"0"} -> ScanDigits(s, i, 0)
      [] OTHER -> Fail

\* position i is where the next element of the array starts
ScanArray(s, i, acc) ==
    LET r == ScanOnce(s, i) IN
    IF ~r.ok THEN Fail
    ELSE LET j == SkipWs(s, r.i)
             acc2 == Append(acc, r.v) IN
         IF At(s, j) = "]" THEN Ok(PyList(acc2), j + 1)
         ELSE IF At(s, j) = "," THEN ScanArray(s, SkipWs(s, j + 1), acc2)
         ELSE Fail

\* position i is where the next key of the object starts
ScanObject(s, i, acc) ==
    IF At(s, i) # "\"" THEN Fail
    ELSE LET k == ScanString(s, i + 1, <<>>) IN
         IF ~k.ok THEN Fail
         ELSE LET j == SkipWs(s, k.i) IN
              IF At(s, j) # ":" THEN Fail
              ELSE LET r == ScanOnce(s, SkipWs(s, j + 1)) IN
                   IF ~r.ok THEN Fail
                   ELSE LET m == SkipWs(s, r.i)
                            acc2 == SetItem(acc, k.v, r.v) IN
                        IF At(s, m) = "}" THEN Ok(PyDict(acc2), m + 1)
                        ELSE IF At(s, m) = ","
                        THEN ScanObject(s, SkipWs(s, m + 1), acc2)
                        ELSE Fail

\* json.loads(s): one document, nothing but whitespace around it;
\* a ValueError otherwise
Returned(v) == [kind |-> "return", v |-> v]
Raised(exc) == [kind |-> "raise", exc |-> exc]

loads(s) ==
    LET r == ScanOnce(s, SkipWs(s, 1)) IN
    IF r.ok /\ SkipWs(s, r.i) = Len(s) + 1
    THEN Returned(r.v)
    ELSE Raised("ValueError")

(***************************************************************************)
(* JSON.bind_processor and JSON.result_processor                           *)
(***************************************************************************)
\* dialect.encoding
DialectEncoding == "utf-8"

\* encoding as both processors compute it
Encoding(is_py2k) == IF is_py2k THEN DialectEncoding ELSE ""

\* dialect._json_serializer or json.dumps; the one custom serializer offered
\* is json.dumps with separators=(",", ":")
json_serializer(ser, v) ==
    IF ser = "" THEN dumps(v) ELSE DumpsSep(v, <<",">>, <<":">>)

\* text.encode(encoding) and bytes.decode(encoding) on ASCII characters
StrEncode(v) == PyBytes(v.s)
StrDecode(v) == PyStr(v.s)

\* bind process with "if" for "elif": JSON.NULL falls into the None test
BindProcess_NullFallsThrough(self_none_as_null, is_py2k, ser, value) ==
    LET v == IF value = JSON_NULL THEN PyNone ELSE value IN
    IF v = SqlNull \/ (v = PyNone /\ self_none_as_null)
    THEN PyNone
    ELSE IF Encoding(is_py2k) # ""
    THEN StrEncode(PyStr(json_serializer(ser, v)))
    ELSE PyStr(json_serializer(ser, v))

\* bind process with "not value" for "value is None"
BindProcess_Falsy(self_none_as_null, is_py2k, ser, value) ==
    LET v == IF value = JSON_NULL THEN PyNone ELSE value
        falsy == \/ value \in {PyNone, PyBool(FALSE), PyInt(0)}
                 \/ value.t \in {"list", "tuple", "dict"} /\ value.v = <<>>
    IN
    IF value # JSON_NULL /\ (value = SqlNull \/ (falsy /\ self_none_as_null))
    THEN PyNone
    ELSE IF Encoding(is_py2k) # ""
    THEN StrEncode(PyStr(json_serializer(ser, v)))
    ELSE PyStr(json_serializer(ser, v))

\* process(value) of bind_processor
BindProcess(self_none_as_null, is_py2k, ser, value) ==
    LET v == IF value = JSON_NULL THEN PyNone ELSE value IN
    IF value # JSON_NULL
       /\ (value = SqlNull \/ (value = PyNone /\ self_none_as_null))
    THEN PyNone
    ELSE IF Encoding(is_py2k) # ""
    THEN StrEncode(PyStr(json_serializer(ser, v)))
    ELSE PyStr(json_serializer(ser, v))

\* result process that decodes before it tests for None
ResultProcess_DecodeFirst(is_py2k, value) ==
    IF Encoding(is_py2k) # ""
    THEN IF value = PyNone
         THEN [out |-> Raised("AttributeError"), calls |-> <<"decode">>]
         ELSE [out |-> loads(StrDecode(value).s),
               calls |-> <<"decode", "json_deserializer">>]
    ELSE IF value = PyNone
    THEN [out |-> Returned(PyNone), calls |-> <<>>]
    ELSE [out |-> loads(value.s), calls |-> <<"json_deserializer">>]

\* result process that catches the deserializer's error and returns None
ResultProcess_Swallow(is_py2k, value) ==
    IF value = PyNone
    THEN [out |-> Returned(PyNone), calls |-> <<>>]
    ELSE LET r == loads(value.s) IN
         [out |-> IF r.kind = "raise" THEN Returned(PyNone) ELSE r,
          calls |-> IF Encoding(is_py2k) # ""
                    THEN <<"decode", "json_deserializer">>
                    ELSE <<"json_deserializer">>]

\* process(value) of result_processor: what it returns or raises, and the
\* calls it makes
ResultProcess(is_py2k, value) ==
    IF value = PyNone
    THEN [out |-> Returned(PyNone), calls |-> <<>>]
    ELSE IF Encoding(is_py2k) # ""
    THEN [out |-> loads(StrDecode(value).s),
          calls |-> <<"decode", "json_deserializer">>]
    ELSE [out |-> loads(value.s), calls |-> <<"json_deserializer">>]

(***************************************************************************)
(* The values offered to the codec                                         *)
(***************************************************************************)
SeqsUpTo(S, n) == UNION {[1..k -> S] : k \in 0..n}

Atoms == {PyNone, PyBool(TRUE), PyBool(FALSE), PyInt(0), PyInt(12),
          PyStr(<<"a">>)}
DictKeys == {PyStr(<<"a">>), PyStr(<<"1">>), PyInt(1)}
DictVals == {PyNone, PyInt(0), PyStr(<<"a">>)}

DictItems(n) ==
    {items \in SeqsUpTo(DictKeys \X DictVals, n) :
        \A i, j \in 1..Len(items) : i # j => items[i][1] # items[j][1]}

Flat(n) == {PyList(v) : v \in SeqsUpTo(Atoms, n)}
           \cup {PyTuple(v) : v \in SeqsUpTo(Atoms, n)}
           \cup {PyDict(items) : items \in DictItems(n)}

Nested == {PyList(<<c>>) : c \in Flat(1)}
          \cup {PyDict(<< <<PyStr(<<"a">>), c>> >>) : c \in Flat(1)}

Values == Atoms \cup Flat(MaxLen) \cup Nested \cup {JSON_NULL, SqlNull}

\* what a row may hold that no bind_processor wrote: a document cut short,
\* or a few arbitrary characters
JunkChars == {"[", "]", "{", "1", ",", " ", "\"", "n"}
Prefixes(s) == {SubSeq(s, 1, k) : k \in 0..Len(s)}
RawTexts == UNION {Prefixes(dumps(v)) : v \in Atoms \cup Flat(MaxLen) \cup Nested}
            \cup SeqsUpTo(JunkChars, MaxJunk)

\* the driver hands back the platform's str: bytes on Python 2
Stored(is_py2k, s) == IF is_py2k THEN PyBytes(s) ELSE PyStr(s)

(***************************************************************************)
(* Codec actions.  bindOut is the cell of a row of the table.              *)
(***************************************************************************)
CodecInit ==
    /\ none_as_null \in BOOLEAN
    /\ py2k \in BOOLEAN
    /\ serializer \in {"", "compact"}
    /\ bindIn = Unset /\ bindOut = Unset
    /\ resIn = Unset /\ resOut = Unset /\ calls = <<>>

\* nothing has been bound or fetched for the current row
Fresh == bindIn = Unset /\ resIn = Unset

\* a statement binds value: process(value) is sent to the database
Bind(value) ==
    /\ Fresh
    /\ bindIn' = value
    /\ bindOut' = BindProcess(none_as_null, py2k, serializer, value)
    /\ resIn' = Unset /\ resOut' = Unset /\ calls' = <<>>
    /\ UNCHANGED <<none_as_null, py2k, serializer>>

\* the row that was written is read back through the result processor
Fetch ==
    /\ bindIn # Unset /\ resIn = Unset
    /\ resIn' = bindOut
    /\ resOut' = ResultProcess(py2k, bindOut).out
    /\ calls' = ResultProcess(py2k, bindOut).calls
    /\ UNCHANGED <<none_as_null, py2k, serializer, bindIn, bindOut>>

\* a row some other writer produced is read through the result processor
FetchRaw(s) ==
    /\ Fresh
    /\ bindIn' = Unset /\ bindOut' = Unset
    /\ resIn' = Stored(py2k, s)
    /\ resOut' = ResultProcess(py2k, Stored(py2k, s)).out
    /\ calls' = ResultProcess(py2k, Stored(py2k, s)).calls
    /\ UNCHANGED <<none_as_null, py2k, serializer>>

\* a row holding SQL NULL is read through the result processor
FetchNull ==
    /\ Fresh
    /\ bindIn' = Unset /\ bindOut' = Unset
    /\ resIn' = PyNone
    /\ resOut' = ResultProcess(py2k, PyNone).out
    /\ calls' = ResultProcess(py2k, PyNone).calls
    /\ UNCHANGED <<none_as_null, py2k, serializer>>

\* the statement is over; the processors keep nothing from it
NextRow ==
    /\ ~Fresh
    /\ bindIn' = Unset /\ bindOut' = Unset
    /\ resIn' = Unset /\ resOut' = Unset /\ calls' = <<>>
    /\ UNCHANGED <<none_as_null, py2k, serializer>>

(***************************************************************************)
(* JSONPathType.bind_processor                                             *)
(***************************************************************************)
\* isinstance(value, collections.Sequence): list, tuple, and also str and
\* bytes, which are registered Sequences
IsSequence(value) == value.t \in {"list", "tuple", "str", "bytes"}

\* what "for elem in value" yields; a str yields its characters
Elems(value) ==
    IF value.t \in {"list", "tuple"} THEN value.v
    ELSE [i \in 1..Len(value.s) |-> PyStr(<<value.s[i]>>)]

\* util.text_type(elem)
text_type(elem) ==
    CASE elem.t = "str" -> elem.s
      [] elem.t = "int" -> IntText(elem.n)
      [] elem.t = "None" -> <<"N", "o", "n", "e">>

\* path process joining with "," alone
PathProcess_NoSpace(is_debug, value) ==
    IF is_debug /\ ~IsSequence(value) THEN Raised("AssertionError")
    ELSE IF ~IsSequence(value) THEN Raised("TypeError")
    ELSE LET tokens == [i \in 1..Len(Elems(value)) |->
                           text_type(Elems(value)[i])] IN
         Returned(PyStr(<<"{">> \o Join(<<",">>, tokens) \o <<"}">>))

\* process(value) of JSONPathType.bind_processor.  With assert statements
\* compiled out (python -O) a value that cannot be iterated raises TypeError
\* from the comprehension.
PathProcess(is_debug, value) ==
    IF is_debug /\ ~IsSequence(value) THEN Raised("AssertionError")
    ELSE IF ~IsSequence(value) THEN Raised("TypeError")
    ELSE LET tokens == [i \in 1..Len(Elems(value)) |->
                           text_type(Elems(value)[i])] IN
         Returned(PyStr(<<"{">> \o Join(<<",", " ">>, tokens) \o <<"}">>))

\* the path segments and the values offered to the path processor
Segments == {PyStr(<<"a">>), PyStr(<<"b">>), PyStr(<<"c">>), PyInt(17)}
Paths == {PyList(v) : v \in SeqsUpTo(Segments, MaxPath)}
         \cup {PyTuple(v) : v \in SeqsUpTo(Segments, MaxPath)}
Scalars == {PyStr(<<"a", "b", "c">>), PyStr(<<"k">>), PyInt(5), PyNone}

PathInit == debug \in BOOLEAN /\ pathIn = Unset /\ pathOut = Unset

\* a path parameter is bound
BindPath(value) ==
    /\ pathIn' = value
    /\ pathOut' = PathProcess(debug, value)
    /\ UNCHANGED debug

\* something that is not a list or tuple of segments is bound as a path
BindScalarAsPath(value) ==
    /\ pathIn' = value
    /\ pathOut' = PathProcess(debug, value)
    /\ UNCHANGED debug

(***************************************************************************)
(* Operator descriptors: operators.custom_op(opstring, precedence,         *)
(* natural_self_precedent)                                                 *)
(***************************************************************************)
custom_op(opstring, precedence, natural_self_precedent) ==
    [opstring |-> opstring, precedence |-> precedence,
     natural_self_precedent |-> natural_self_precedent]

ASTEXT == custom_op("->>", 15, TRUE)
JSONPATH_ASTEXT == custom_op("#>>", 15, TRUE)
HAS_KEY == custom_op("?", 15, TRUE)
\* HAS_ALL given the symbol of HAS_KEY
HAS_ALL_SameSymbol == custom_op("?", 15, TRUE)
HAS_ALL == custom_op("?&", 15, TRUE)
HAS_ANY == custom_op("?|", 15, TRUE)
CONTAINS == custom_op("@>", 15, TRUE)
CONTAINED_BY == custom_op("<@", 15, TRUE)

OperatorNames == {"ASTEXT", "JSONPATH_ASTEXT", "HAS_KEY", "HAS_ALL",
                  "HAS_ANY", "CONTAINS", "CONTAINED_BY"}

\* the module namespace after import
ModuleOperators ==
    [n \in OperatorNames |->
        CASE n = "ASTEXT" -> ASTEXT
          [] n = "JSONPATH_ASTEXT" -> JSONPATH_ASTEXT
          [] n = "HAS_KEY" -> HAS_KEY
          [] n = "HAS_ALL" -> HAS_ALL
          [] n = "HAS_ANY" -> HAS_ANY
          [] n = "CONTAINS" -> CONTAINS
          [] n = "CONTAINED_BY" -> CONTAINED_BY]

(***************************************************************************)
(* Types and comparators                                                   *)
(***************************************************************************)
Text == [name |-> "Text"]
Unicode == [name |-> "Unicode"]
Boolean == [name |-> "Boolean"]
NoType == [name |-> "None"]

\* JSON.__init__ / JSONB.__init__ (inherited): the class attribute
\* astext_type = Text() unless the argument replaces it
JSON__init__(cls, astext_type) ==
    [name |-> cls,
     astext_type |-> IF astext_type # NoType THEN astext_type ELSE Text]

\* comparator_factory of a type
comparator_factory(type) ==
    CASE type.name = "JSON" -> "JSON.Comparator"
      [] type.name = "JSONB" -> "JSONB.Comparator"
      [] OTHER -> "TypeEngine.Comparator"

\* the comparator classes that define, or inherit, an attribute
HasAttr(comparator, attr) ==
    CASE attr \in {"astext", "__getitem__"} ->
            comparator \in {"JSON.Comparator", "JSONB.Comparator"}
      [] attr \in {"has_key", "has_all", "has_any", "contains",
                   "contained_by"} ->
            comparator = "JSONB.Comparator"

\* an expression object.  A column has no operands: left = 0.  left is the
\* position of the left operand in nodes; right is a bound parameter, which
\* carries the position of the call that created it as its identity.
Column(type) ==
    [left |-> 0, right |-> [id |-> 0], operator |-> "", type |-> type]
BindParameter(id, value, type) == [id |-> id, value |-> value, type |-> type]

\* left.operate(op, right, result_type=...): a new BinaryExpression
operate(left, op, right, result_type) ==
    [left |-> left, right |-> right, operator |-> op, type |-> result_type]

\* the index operation of the base comparator: a list or tuple is a path
getitem(ns, i, index) ==
    IF index.t \in {"list", "tuple"}
    THEN operate(i, "json_path_getitem_op",
                 BindParameter(Len(ns) + 1, index, "JSONPathType"),
                 ns[i].type)
    ELSE operate(i, "json_getitem_op",
                 BindParameter(Len(ns) + 1, index, "JSONIndexType"),
                 ns[i].type)

\* astext with the two operators exchanged
astext_Swapped(ns, i) ==
    IF ns[i].right.type = "JSONPathType"
    THEN operate(ns[i].left, "ASTEXT", ns[i].right, ns[i].type.astext_type)
    ELSE operate(ns[i].left, "JSONPATH_ASTEXT", ns[i].right,
                 ns[i].type.astext_type)

\* astext that keeps the type of the indexed expression
astext_KeepsType(ns, i) ==
    IF ns[i].right.type = "JSONPathType"
    THEN operate(ns[i].left, "JSONPATH_ASTEXT", ns[i].right, ns[i].type)
    ELSE operate(ns[i].left, "ASTEXT", ns[i].right, ns[i].type)

\* JSON.Comparator.astext on the expression ns[i]
astext(ns, i) ==
    IF ns[i].right.type = "JSONPathType"
    THEN operate(ns[i].left, "JSONPATH_ASTEXT", ns[i].right,
                 ns[i].type.astext_type)
    ELSE operate(ns[i].left, "ASTEXT", ns[i].right, ns[i].type.astext_type)

\* JSONB.Comparator methods on the expression ns[i]
has_key(ns, i, other) ==
    operate(i, "HAS_KEY", BindParameter(Len(ns) + 1, other, "literal"),
            Boolean)
has_all(ns, i, other) ==
    operate(i, "HAS_ALL", BindParameter(Len(ns) + 1, other, "literal"),
            Boolean)
has_any(ns, i, other) ==
    operate(i, "HAS_ANY", BindParameter(Len(ns) + 1, other, "literal"),
            Boolean)
contains(ns, i, other) ==
    operate(i, "CONTAINS", BindParameter(Len(ns) + 1, other, "literal"),
            Boolean)
\* contained_by built with the operator of contains
contained_by_Contains(ns, i, other) ==
    operate(i, "CONTAINS", BindParameter(Len(ns) + 1, other, "literal"),
            Boolean)
contained_by(ns, i, other) ==
    operate(i, "CONTAINED_BY", BindParameter(Len(ns) + 1, other, "literal"),
            Boolean)

(***************************************************************************)
(* Expression actions                                                      *)
(***************************************************************************)
AstextTypes == {NoType, Unicode, JSON__init__("JSONB", NoType)}
IndexKeys == {PyStr(<<"k">>), PyInt(1),
              PyTuple(<<PyStr(<<"a">>), PyStr(<<"b">>)>>)}
KeyArgs == {PyStr(<<"k">>)}
KeyListArgs == {PyList(<<PyStr(<<"a">>), PyStr(<<"b">>)>>)}
DocArgs == {PyDict(<< <<PyStr(<<"a">>), PyInt(0)>> >>)}

ExprInit ==
    /\ descriptors = ModuleOperators
    /\ \E cls \in {"JSON", "JSONB"}, at \in AstextTypes :
          nodes = <<Column(JSON__init__(cls, at))>>
    /\ call = [method |-> "", self |-> 0, other |-> PyNone, raised |-> ""]

\* the call returned the new expression
Return(method, i, other, expr) ==
    /\ nodes' = Append(nodes, expr)
    /\ call' = [method |-> method, self |-> i, other |-> other, raised |-> ""]
    /\ UNCHANGED descriptors

\* the call raised
Raise(method, i, other, exc) ==
    /\ call' = [method |-> method, self |-> i, other |-> other, raised |-> exc]
    /\ UNCHANGED <<descriptors, nodes>>

\* nodes[i][index]
Getitem(i, index) ==
    /\ Len(nodes) < MaxNodes
    /\ IF HasAttr(comparator_factory(nodes[i].type), "__getitem__")
       THEN Return("__getitem__", i, index, getitem(nodes, i, index))
       ELSE Raise("__getitem__", i, index, "NotImplementedError")

\* nodes[i].astext; a column has no attribute right
Astext(i) ==
    /\ Len(nodes) < MaxNodes
    /\ IF HasAttr(comparator_factory(nodes[i].type), "astext")
          /\ nodes[i].left # 0
       THEN Return("astext", i, PyNone, astext(nodes, i))
       ELSE Raise("astext", i, PyNone, "AttributeError")

\* nodes[i].has_key(other) and the other four JSONB methods
JSONBCall(method, i, other, expr) ==
    /\ Len(nodes) < MaxNodes
    /\ IF HasAttr(comparator_factory(nodes[i].type), method)
       THEN Return(method, i, other, expr)
       ELSE Raise(method, i, other, "AttributeError")

HasKey(i, other) == JSONBCall("has_key", i, other, has_key(nodes, i, other))
HasAll(i, other) == JSONBCall("has_all", i, other, has_all(nodes, i, other))
HasAny(i, other) == JSONBCall("has_any", i, other, has_any(nodes, i, other))
Contains(i, other) ==
    JSONBCall("contains", i, other, contains(nodes, i, other))
ContainedBy(i, other) ==
    JSONBCall("contained_by", i, other, contained_by(nodes, i, other))

(***************************************************************************)
(* Specifications.  The three parts of the module share no state; each is  *)
(* explored with the other two at rest.                                    *)
(***************************************************************************)
CodecIdle ==
    /\ none_as_null = FALSE /\ py2k = FALSE /\ serializer = ""
    /\ bindIn = Unset /\ bindOut = Unset
    /\ resIn = Unset /\ resOut = Unset /\ calls = <<>>
PathIdle == debug = TRUE /\ pathIn = Unset /\ pathOut = Unset
ExprIdle ==
    /\ descriptors = ModuleOperators
    /\ nodes = <<>>
    /\ call = [method |-> "", self |-> 0, other |-> PyNone, raised |-> ""]

InitCodec == CodecInit /\ PathIdle /\ ExprIdle
NextCodec ==
    \/ \E value \in Values : Bind(value) /\ UNCHANGED <<pathVars, exprVars>>
    \/ Fetch /\ UNCHANGED <<pathVars, exprVars>>
    \/ \E s \in RawTexts : FetchRaw(s) /\ UNCHANGED <<pathVars, exprVars>>
    \/ FetchNull /\ UNCHANGED <<pathVars, exprVars>>
    \/ NextRow /\ UNCHANGED <<pathVars, exprVars>>
SpecCodec == InitCodec /\ [][NextCodec]_vars

InitPath == PathInit /\ CodecIdle /\ ExprIdle
NextPath ==
    \/ \E value \in Paths : BindPath(value) /\ UNCHANGED <<codecVars, exprVars>>
    \/ \E value \in Scalars :
          BindScalarAsPath(value) /\ UNCHANGED <<codecVars, exprVars>>
SpecPath == InitPath /\ [][NextPath]_vars

InitExpr == ExprInit /\ CodecIdle /\ PathIdle
NextExpr ==
    \/ \E i \in 1..Len(nodes), index \in IndexKeys :
          Getitem(i, index) /\ UNCHANGED <<codecVars, pathVars>>
    \/ \E i \in 1..Len(nodes) : Astext(i) /\ UNCHANGED <<codecVars, pathVars>>
    \/ \E i \in 1..Len(nodes), other \in KeyArgs :
          HasKey(i, other) /\ UNCHANGED <<codecVars, pathVars>>
    \/ \E i \in 1..Len(nodes), other \in KeyListArgs :
          HasAll(i, other) /\ UNCHANGED <<codecVars, pathVars>>
    \/ \E i \in 1..Len(nodes), other \in KeyListArgs :
          HasAny(i, other) /\ UNCHANGED <<codecVars, pathVars>>
    \/ \E i \in 1..Len(nodes), other \in DocArgs :
          Contains(i, other) /\ UNCHANGED <<codecVars, pathVars>>
    \/ \E i \in 1..Len(nodes), other \in DocArgs :
          ContainedBy(i, other) /\ UNCHANGED <<codecVars, pathVars>>
SpecExpr == InitExpr /\ [][NextExpr]_vars

(***************************************************************************)
(* Properties of the value codec                                           *)
(***************************************************************************)
\* the serialized literal null as the bind processor hands it over
LiteralNull == IF py2k THEN PyBytes(Chars("null")) ELSE PyStr(Chars("null"))

\* C1: for both values of none_as_null, binding a SQL-null marker yields
\* None; binding JSON.NULL yields the serialized literal null and never None;
\* binding None yields None when none_as_null is set and the serialized
\* literal null when it is not.
NullDiscrimination ==
    bindIn # Unset =>
        /\ bindIn = SqlNull => bindOut = PyNone
        /\ bindIn = JSON_NULL => bindOut = LiteralNull /\ bindOut # PyNone
        /\ bindIn = PyNone =>
              bindOut = (IF none_as_null THEN PyNone ELSE LiteralNull)

NullDiscriminationWitness ==
    bindIn = JSON_NULL /\ none_as_null /\ bindOut = LiteralNull

\* the values the default serializer maps one-to-one onto JSON documents:
\* no tuple anywhere, every dict key a str
RECURSIVE JsonNative(_)
JsonNative(v) ==
    CASE v.t \in {"None", "bool", "int", "str"} -> TRUE
      [] v.t = "list" -> \A i \in 1..Len(v.v) : JsonNative(v.v[i])
      [] v.t = "dict" ->
            \A i \in 1..Len(v.v) :
                v.v[i][1].t = "str" /\ JsonNative(v.v[i][2])
      [] OTHER -> FALSE

\* the row read back is the one the bind processor wrote, with the default
\* serializer
ReadBack == bindIn # Unset /\ resIn # Unset /\ serializer = ""

\* C2 as stated: every value other than JSON.NULL, None and the SQL-null
\* marker comes back from decode(encode(v)) equal to itself.
RoundTripEveryValue ==
    ReadBack /\ bindIn \notin {JSON_NULL, PyNone, SqlNull} =>
        resOut = Returned(bindIn)

\* C2 amended: every value built from str-keyed dicts, lists, strings,
\* integers, booleans and nested None, other than a top-level None, comes
\* back from decode(encode(v)) equal to itself, for either none_as_null.
RoundTripNative ==
    ReadBack /\ bindIn \notin {JSON_NULL, PyNone, SqlNull}
             /\ JsonNative(bindIn) =>
        resOut = Returned(bindIn)

RoundTripWitness ==
    /\ ReadBack /\ none_as_null /\ py2k
    /\ bindIn = PyDict(<< <<PyStr(<<"a">>), PyList(<<>>)>> >>)
    /\ resOut = Returned(bindIn)

\* C8: decoding None returns None without a character-decoding step or a
\* deserializer call; any other stored value makes exactly one deserializer
\* call, preceded by the character-decoding step iff an encoding is set.
DecodeCalls ==
    resIn # Unset =>
        IF resIn = PyNone
        THEN resOut = Returned(PyNone) /\ calls = <<>>
        ELSE calls = (IF Encoding(py2k) # "" THEN <<"decode">> ELSE <<>>)
                     \o <<"json_deserializer">>

DecodeCallsWitness ==
    resIn = PyNone /\ py2k /\ resOut = Returned(PyNone) /\ calls = <<>>

\* C9: a stored value the deserializer rejects makes the result processor
\* raise the deserializer's error: nothing is returned in its place.
MalformedRaises ==
    resIn # Unset /\ resIn # PyNone /\ loads(resIn.s).kind = "raise" =>
        resOut = Raised("ValueError")

MalformedRaisesWitness ==
    /\ resIn # Unset /\ resIn # PyNone
    /\ resIn.s = <<"[", "1", "2", ",">>
    /\ resOut = Raised("ValueError")

(***************************************************************************)
(* Properties of the path processor                                        *)
(***************************************************************************)
SegText(seg) == IF seg.t = "str" THEN seg.s ELSE IntText(seg.n)

\* where segment i starts in the token: after "{" and the segments before
\* it, each followed by ", "
RECURSIVE SegStart(_, _)
SegStart(segs, i) ==
    IF i = 1 THEN 2
    ELSE SegStart(segs, i - 1) + Len(SegText(segs[i - 1])) + 2

\* C3: a list or tuple of segments yields one token: "{", the segments'
\* string forms in input order, duplicates kept, each unchanged and
\* separated by ", ", then "}"; the token has as many segments as the input.
PathToken ==
    pathIn # Unset /\ pathIn.t \in {"list", "tuple"} =>
        /\ pathOut.kind = "return"
        /\ pathOut.v.t = "str"
        /\ LET out == pathOut.v.s
               segs == pathIn.v
               n == Len(segs)
               end(i) == SegStart(segs, i) + Len(SegText(segs[i]))
           IN /\ Len(out) = (IF n = 0 THEN 2 ELSE end(n))
              /\ out[1] = "{" /\ out[Len(out)] = "}"
              /\ \A i \in 1..n :
                    SubSeq(out, SegStart(segs, i), end(i) - 1)
                        = SegText(segs[i])
              /\ \A i \in 1..(n - 1) :
                    out[end(i)] = "," /\ out[end(i) + 1] = " "

PathTokenWitness ==
    /\ pathIn = PyList(<<PyStr(<<"a">>), PyStr(<<"b">>), PyStr(<<"c">>)>>)
    /\ pathOut = Returned(PyStr(<<"{", "a", ",", " ", "b", ",", " ", "c",
                                  "}">>))

\* C4: binding a scalar where a path is expected raises; no token is
\* returned.
ScalarRejected ==
    pathIn \in Scalars => pathOut.kind = "raise"

(***************************************************************************)
(* Properties of the comparators                                           *)
(***************************************************************************)
GetitemOps == {"json_getitem_op", "json_path_getitem_op"}
AstextOps == {"ASTEXT", "JSONPATH_ASTEXT"}
ContainmentOps == {"HAS_KEY", "HAS_ALL", "HAS_ANY", "CONTAINS",
                   "CONTAINED_BY"}
ContainmentMethods == {"has_key", "has_all", "has_any", "contains",
                       "contained_by"}

\* the last call returned an expression: it is the newest one
Returns == call.method # "" /\ call.raised = ""
Receiver == nodes[call.self]
Newest == nodes[Len(nodes)]

\* the expression is a chain of index operations on a column
RECURSIVE IndexChain(_)
IndexChain(i) ==
    /\ nodes[i].operator \in GetitemOps
    /\ nodes[nodes[i].left].left = 0 \/ IndexChain(nodes[i].left)

RECURSIVE Root(_)
Root(i) == IF nodes[i].left = 0 THEN i ELSE Root(nodes[i].left)

\* C5: astext after a chain of index operations applies JSONPATH_ASTEXT
\* ("#>>") when the last index was a path and ASTEXT ("->>") when it was a
\* scalar key, to the left and right operands of that last index operation,
\* with the astext_type of the column's type as result type, whatever the
\* earlier links were.
AstextOperator ==
    Returns /\ call.method = "astext" /\ IndexChain(call.self) =>
        LET path == Receiver.right.value.t \in {"list", "tuple"} IN
        /\ Newest.operator = (IF path THEN "JSONPATH_ASTEXT" ELSE "ASTEXT")
        /\ descriptors[Newest.operator].opstring
              = (IF path THEN "#>>" ELSE "->>")
        /\ Newest.left = Receiver.left
        /\ Newest.right = Receiver.right
        /\ Newest.type = nodes[Root(call.self)].type.astext_type

AstextOperatorWitness ==
    /\ Returns /\ call.method = "astext" /\ IndexChain(call.self)
    /\ Receiver.operator = "json_getitem_op"
    /\ nodes[Receiver.left].operator = "json_path_getitem_op"
    /\ Newest.operator = "ASTEXT"

\* the state of an expression
StateOf(expr) ==
    CASE expr.type.name \in {"JSON", "JSONB"} -> "Structured"
      [] expr.type.name = "Boolean" -> "Boolean"
      [] OTHER -> "Text"

SymbolOf(method) ==
    CASE method = "has_key" -> "?"
      [] method = "has_all" -> "?&"
      [] method = "has_any" -> "?|"
      [] method = "contains" -> "@>"
      [] method = "contained_by" -> "<@"

\* C7: on JSONB each of has_key, has_all, has_any, contains, contained_by
\* adds one Boolean expression built with its own operator over the
\* receiver and the argument, and every expression that existed, the
\* receiver among them, is as it was.
ContainmentFrame ==
    [][call'.method \in ContainmentMethods /\ call'.raised = "" =>
          LET new == nodes'[Len(nodes')] IN
          /\ Len(nodes') = Len(nodes) + 1
          /\ SubSeq(nodes', 1, Len(nodes)) = nodes
          /\ nodes[call'.self].type.name = "JSONB"
          /\ new.type = Boolean
          /\ descriptors'[new.operator].opstring = SymbolOf(call'.method)
          /\ new.left = call'.self
          /\ new.right.value = call'.other]_vars

ContainmentFrameWitness ==
    /\ Returns /\ call.method = "contained_by"
    /\ Newest.operator = "CONTAINED_BY" /\ Newest.type = Boolean
    /\ Receiver.operator = "json_getitem_op"

\* C10: each of the seven descriptors has precedence 15 and is
\* self-precedent, no two share a symbol, and no step changes one.
DescriptorsFixed ==
    /\ [](/\ DOMAIN descriptors = OperatorNames
          /\ \A n \in OperatorNames :
                /\ descriptors[n].precedence = 15
                /\ descriptors[n].natural_self_precedent
          /\ \A m, n \in OperatorNames :
                m # n => descriptors[m].opstring # descriptors[n].opstring)
    /\ [][descriptors' = descriptors]_vars

DescriptorsFixedWitness ==
    /\ Returns /\ call.method = "has_any"
    /\ descriptors[Newest.operator].opstring = "?|"
    /\ Len(nodes) >= 3

====
